---- MODULE Spec2Model ----
(***************************************************************************)
(* Jakob and Hanika (2019) reflectance recovery: the spectral model, the   *)
(* tail of the error function, the coefficient solver's entry, the         *)
(* redimensionalisation of coefficients and the lookup-table interpolator  *)
(* of colour/recovery/jakob2019.py.                                        *)
(*                                                                         *)
(* The program computes in IEEE-754 binary64.  The arithmetic below is     *)
(* binary64 itself (53-bit significand, round to nearest, ties to even,    *)
(* gradual underflow, overflow to infinity, NaN), carried on natural       *)
(* numbers written as sequences of 15-bit limbs.                           *)
(***************************************************************************)
EXTENDS Integers, Sequences, FiniteSets, TLC

\* ------------------------------------------------------------------------
\* Natural numbers of any size: little-endian sequences of limbs, no
\* leading zero limb, zero is << >>.
\* ------------------------------------------------------------------------
Max(a, b) == IF a >= b THEN a ELSE b
Min(a, b) == IF a <= b THEN a ELSE b

LimbBits == 3 * 5
Base == 2 ^ LimbBits

RECURSIVE BNorm(_)
BNorm(a) ==
    IF a = << >> THEN << >>
    ELSE IF a[Len(a)] = 0 THEN BNorm(SubSeq(a, 1, Len(a) - 1))
    ELSE a

BLimb(a, i) == IF i <= Len(a) THEN a[i] ELSE 0

RECURSIVE BFromInt(_)
BFromInt(n) == IF n = 0 THEN << >> ELSE <<n % Base>> \o BFromInt(n \div Base)

RECURSIVE BAddC(_, _, _, _)
BAddC(a, b, i, c) ==
    IF i > Len(a) /\ i > Len(b)
    THEN (IF c = 0 THEN << >> ELSE <<c>>)
    ELSE LET t == BLimb(a, i) + BLimb(b, i) + c
         IN  <<t % Base>> \o BAddC(a, b, i + 1, t \div Base)

BAdd(a, b) == BAddC(a, b, 1, 0)

\* a - b for a >= b
RECURSIVE BSubC(_, _, _, _)
BSubC(a, b, i, c) ==
    IF i > Len(a) THEN << >>
    ELSE LET t == a[i] - BLimb(b, i) - c
         IN  IF t < 0 THEN <<t + Base>> \o BSubC(a, b, i + 1, 1)
             ELSE <<t>> \o BSubC(a, b, i + 1, 0)

BSub(a, b) == BNorm(BSubC(a, b, 1, 0))

RECURSIVE BCmpAt(_, _, _)
BCmpAt(a, b, i) ==
    IF i = 0 THEN 0
    ELSE IF a[i] > b[i] THEN 1
    ELSE IF a[i] < b[i] THEN -1
    ELSE BCmpAt(a, b, i - 1)

\* -1, 0, 1 as a < b, a = b, a > b
BCmp(a, b) ==
    IF Len(a) > Len(b) THEN 1
    ELSE IF Len(a) < Len(b) THEN -1
    ELSE BCmpAt(a, b, Len(a))

RECURSIVE BMulSmallC(_, _, _, _)
BMulSmallC(a, k, i, c) ==
    IF i > Len(a) THEN (IF c = 0 THEN << >> ELSE <<c>>)
    ELSE LET t == a[i] * k + c
         IN  <<t % Base>> \o BMulSmallC(a, k, i + 1, t \div Base)

\* a * k for 0 <= k < Base
BMulSmall(a, k) == IF k = 0 THEN << >> ELSE BMulSmallC(a, k, 1, 0)

Zeros(n) == [i \in 1..n |-> 0]

RECURSIVE BMulAt(_, _, _)
BMulAt(a, b, i) ==
    IF i > Len(b) THEN << >>
    ELSE LET p == BMulSmall(a, b[i])
             rest == BMulAt(a, b, i + 1)
         IN  BAdd(IF p = << >> THEN << >> ELSE Zeros(i - 1) \o p, rest)

BMul(a, b) == BMulAt(a, b, 1)

BShl(a, k) ==
    IF a = << >> THEN << >>
    ELSE Zeros(k \div LimbBits) \o BMulSmall(a, 2 ^ (k % LimbBits))

BShr(a, k) ==
    LET q == k \div LimbBits
        r == k % LimbBits
    IN  IF q >= Len(a) THEN << >>
        ELSE LET d == SubSeq(a, q + 1, Len(a))
             IN  BNorm([i \in 1..Len(d) |->
                          (d[i] \div (2 ^ r))
                          + (BLimb(d, i + 1) % (2 ^ r)) * (2 ^ (LimbBits - r))])

RECURSIVE IntBitLen(_)
IntBitLen(n) == IF n = 0 THEN 0 ELSE 1 + IntBitLen(n \div 2)

BBitLen(a) ==
    IF a = << >> THEN 0
    ELSE LimbBits * (Len(a) - 1) + IntBitLen(a[Len(a)])

BIsOdd(a) == a # << >> /\ a[1] % 2 = 1

RECURSIVE IntTrailingZeros(_)
IntTrailingZeros(n) == IF n % 2 = 1 THEN 0 ELSE 1 + IntTrailingZeros(n \div 2)

\* number of trailing zero bits of a > 0
RECURSIVE BTrailingZeros(_)
BTrailingZeros(a) ==
    IF a[1] = 0 THEN LimbBits + BTrailingZeros(Tail(a))
    ELSE IntTrailingZeros(a[1])

\* TRUE, once v has been computed: TLC computes an operator's argument where
\* it is first used, which may be deep inside a recursion
Evaluated(v) == v = v

\* Long division in base 2^15 (Knuth's algorithm D).  b has its leading limb
\* at least Base / 2, r < b, and the limbs a[1..i] are still to be brought
\* down; qhat is first estimated from the two leading limbs of the running
\* remainder and then lowered until qhat * b fits.
RECURSIVE BFit(_, _, _)
BFit(r, b, qhat) ==
    IF BCmp(BMulSmall(b, qhat), r) > 0 THEN BFit(r, b, qhat - 1) ELSE qhat

RECURSIVE BDivStep(_, _, _, _, _)

\* the next step, once the new quotient and remainder are computed
BDivNext(a, b, i, q2, r2) ==
    CASE Evaluated(r2) /\ Evaluated(q2) -> BDivStep(a, b, i - 1, q2, r2)

\* the digit qhat is taken out of the running remainder r1
BDivTake(a, b, i, q, r1, qhat) ==
    BDivNext(a, b, i, <<qhat>> \o q, BSub(r1, BMulSmall(b, qhat)))

\* the digit for the running remainder r1
BDivDigit(a, b, i, q, r1) ==
    BDivTake(a, b, i, q, r1,
             BFit(r1, b,
                  Min(Base - 1,
                      (BLimb(r1, Len(b) + 1) * Base + BLimb(r1, Len(b)))
                          \div b[Len(b)])))

BDivStep(a, b, i, q, r) ==
    IF i = 0 THEN [q |-> BNorm(q), r |-> r]
    ELSE BDivDigit(a, b, i, q, BNorm(<<a[i]>> \o r))

\* the remainder is shifted back
BDivResult(d, sh) == [q |-> d.q, r |-> BShr(d.r, sh)]

BDivShifted(a, b, sh) == BDivResult(BDivStep(a, b, Len(a), << >>, << >>), sh)

BDivNorm(a, b, sh) == BDivShifted(BShl(a, sh), BShl(b, sh), sh)

\* quotient and remainder of a by b > 0
BDivMod(a, b) == BDivNorm(a, b, LimbBits - IntBitLen(b[Len(b)]))

\* the integer a < 2^31 written by at most three limbs
BToInt(a) == BLimb(a, 1) + Base * BLimb(a, 2) + (Base * Base) * BLimb(a, 3)

\* floor(sqrt(n)) of an integer by Newton's iteration from x >= sqrt(n)
RECURSIVE IntSqrtFrom(_, _)
IntSqrtFrom(n, x) ==
    LET y == (x + n \div x) \div 2
    IN  IF y >= x THEN x ELSE IntSqrtFrom(n, y)

\* floor(sqrt(n)) by Newton's iteration from x >= sqrt(n)
RECURSIVE BSqrtFrom(_, _)

BSqrtNext(n, x, y) == IF BCmp(y, x) >= 0 THEN x ELSE BSqrtFrom(n, y)

BSqrtFrom(n, x) == BSqrtNext(n, x, BShr(BAdd(x, BDivMod(n, x).q), 1))

\* ------------------------------------------------------------------------
\* IEEE-754 binary64.  A value is NaN, an infinity or (-1)^s * m * 2^e with
\* m odd (or m = 0, a signed zero), so equal numbers are equal records.
\* ------------------------------------------------------------------------
NaN == [k |-> "nan", s |-> 0, m |-> << >>, e |-> 0]
Inf(s) == [k |-> "inf", s |-> s, m |-> << >>, e |-> 0]
Zero(s) == [k |-> "fin", s |-> s, m |-> << >>, e |-> 0]

IsNaN(x) == x.k = "nan"
IsInf(x) == x.k = "inf"
IsFinite(x) == x.k = "fin"
IsZero(x) == x.k = "fin" /\ x.m = << >>

\* the canonical record of (-1)^s * m * 2^e, m > 0, which has tz trailing
\* zero bits
CanonAt(s, m, e, tz) == [k |-> "fin", s |-> s, m |-> BShr(m, tz), e |-> e + tz]

Canon(s, m, e) == CanonAt(s, m, e, BTrailingZeros(m))

\* exponent of the leading bit of a finite nonzero value
Msb(x) == x.e + BBitLen(x.m) - 1

\* The binary64 nearest to (-1)^s * (M + d) * 2^E, where 0 < d < 1 if sticky
\* and d = 0 otherwise: 53 significant bits, last place no lower than 2^-1074,
\* ties to even, overflow to infinity.
\* the rounded significand r at exponent q
RoundedTo(s, r, q) ==
    IF r = << >> THEN Zero(s)
    ELSE IF BBitLen(r) + q > 1024 THEN Inf(s)
    ELSE Canon(s, r, q)

\* c compares the bits dropped with half a unit of the last place kept
RoundUp(keep, c, sticky) == c > 0 \/ (c = 0 /\ (sticky \/ BIsOdd(keep)))

\* keep is M without its sh lowest bits
RoundKeep(s, M, keep, sh, q, sticky) ==
    RoundedTo(s,
              IF RoundUp(keep,
                         BCmp(BSub(M, BShl(keep, sh)), BShl(<<1>>, sh - 1)),
                         sticky)
              THEN BAdd(keep, <<1>>) ELSE keep,
              q)

\* q is the exponent of the last place kept
RoundAt(s, M, E, q, sticky) ==
    IF q <= E
    THEN (IF E + BBitLen(M) > 1024 THEN Inf(s) ELSE Canon(s, M, E))
    ELSE RoundKeep(s, M, BShr(M, q - E), q - E, q, sticky)

F64Round(s, M, E, sticky) ==
    IF M = << >> THEN Zero(s)
    ELSE RoundAt(s, M, E, Max(E + BBitLen(M) - 53, -1074), sticky)

F64Neg(x) == IF IsNaN(x) THEN x ELSE [x EXCEPT !.s = 1 - x.s]

F64Int(n) ==
    IF n = 0 THEN Zero(0)
    ELSE IF n > 0 THEN Canon(0, BFromInt(n), 0)
    ELSE Canon(1, BFromInt(-n), 0)

F64Abs(x) == IF IsNaN(x) THEN x ELSE [x EXCEPT !.s = 0]

\* An addend too small to reach the rounding of the other one stands for
\* itself as the single bit 2^(hb - 60), hb the leading exponent of the other
\* one and hs its own: the rounded sum is the same.
Faint(small, hs, hb) ==
    IF hs < hb - 60 THEN [small EXCEPT !.m = <<1>>, !.e = hb - 60] ELSE small

\* the significands at the common exponent e0; c compares them
AddSigned(sx, sy, mx, my, e0, c) ==
    IF sx # sy /\ c = 0 THEN Zero(0)
    ELSE F64Round(IF sx = sy \/ c > 0 THEN sx ELSE sy,
                  IF sx = sy THEN BAdd(mx, my)
                  ELSE IF c > 0 THEN BSub(mx, my) ELSE BSub(my, mx),
                  e0, FALSE)

AddMant(sx, sy, mx, my, e0) == AddSigned(sx, sy, mx, my, e0, BCmp(mx, my))

AddAt(x, y, e0) ==
    AddMant(x.s, y.s, BShl(x.m, x.e - e0), BShl(y.m, y.e - e0), e0)

AddFaint(x, y) == AddAt(x, y, Min(x.e, y.e))

AddMsb(x, y, hx, hy) == AddFaint(Faint(x, hx, hy), Faint(y, hy, hx))

F64AddFin(x, y) == AddMsb(x, y, Msb(x), Msb(y))

F64Add(x, y) ==
    IF IsNaN(x) \/ IsNaN(y) THEN NaN
    ELSE IF IsInf(x) /\ IsInf(y) THEN (IF x.s = y.s THEN x ELSE NaN)
    ELSE IF IsInf(x) THEN x
    ELSE IF IsInf(y) THEN y
    ELSE IF IsZero(x) /\ IsZero(y) THEN Zero(IF x.s = 1 /\ y.s = 1 THEN 1 ELSE 0)
    ELSE IF IsZero(x) THEN y
    ELSE IF IsZero(y) THEN x
    ELSE F64AddFin(x, y)

F64Sub(x, y) == F64Add(x, F64Neg(y))

Xor(a, b) == IF a = b THEN 0 ELSE 1

F64Mul(x, y) ==
    IF IsNaN(x) \/ IsNaN(y) THEN NaN
    ELSE IF (IsInf(x) /\ IsZero(y)) \/ (IsZero(x) /\ IsInf(y)) THEN NaN
    ELSE IF IsInf(x) \/ IsInf(y) THEN Inf(Xor(x.s, y.s))
    ELSE IF IsZero(x) \/ IsZero(y) THEN Zero(Xor(x.s, y.s))
    ELSE F64Round(Xor(x.s, y.s), BMul(x.m, y.m), x.e + y.e, FALSE)

\* x / y from the integer quotient of the significands, x's shifted left
\* far enough for the quotient to hold at least 55 bits
DivRounded(s, d, e) == F64Round(s, d.q, e, d.r # << >>)

DivShift(x, y, sh) ==
    DivRounded(Xor(x.s, y.s), BDivMod(BShl(x.m, sh), y.m), x.e - y.e - sh)

F64DivFin(x, y) == DivShift(x, y, 56 + BBitLen(y.m) - BBitLen(x.m))

\* numpy's true division: x / 0 is an infinity or NaN, never an exception
F64Div(x, y) ==
    IF IsNaN(x) \/ IsNaN(y) THEN NaN
    ELSE IF IsInf(x) THEN (IF IsInf(y) THEN NaN ELSE Inf(Xor(x.s, y.s)))
    ELSE IF IsInf(y) THEN Zero(Xor(x.s, y.s))
    ELSE IF IsZero(y) THEN (IF IsZero(x) THEN NaN ELSE Inf(Xor(x.s, y.s)))
    ELSE IF IsZero(x) THEN Zero(Xor(x.s, y.s))
    ELSE F64DivFin(x, y)

\* sqrt(x) from the integer square root of the significand shifted left to
\* 109 or 110 bits (an even exponent is left), a root of 55 bits; Newton's
\* iteration starts from the root of the leading 30 bits
SqrtRounded(n, e, r) == F64Round(0, r, e, BMul(r, r) # n)

SqrtOf(n, e) ==
    SqrtRounded(n, e,
                BSqrtFrom(n, BShl(BFromInt(IntSqrtFrom(BToInt(BShr(n, 80)),
                                                       2 ^ 15) + 1), 40)))

SqrtShift(x, k) == SqrtOf(BShl(x.m, k), (x.e - k) \div 2)

SqrtLen(x, l) ==
    SqrtShift(x, IF (x.e - (110 - l)) % 2 = 0 THEN 110 - l ELSE 109 - l)

F64SqrtFin(x) == SqrtLen(x, BBitLen(x.m))

F64Sqrt(x) ==
    IF IsNaN(x) THEN NaN
    ELSE IF IsZero(x) THEN x
    ELSE IF x.s = 1 THEN NaN
    ELSE IF IsInf(x) THEN x
    ELSE F64SqrtFin(x)

\* -1, 0, 1 as |x| < |y|, |x| = |y|, |x| > |y|, for finite x and y
MagCmpAt(x, y, e0) == BCmp(BShl(x.m, x.e - e0), BShl(y.m, y.e - e0))

MagCmpMsb(x, y, hx, hy) ==
    IF hx > hy THEN 1
    ELSE IF hx < hy THEN -1
    ELSE MagCmpAt(x, y, Min(x.e, y.e))

MagCmp(x, y) ==
    IF IsZero(x) THEN (IF IsZero(y) THEN 0 ELSE -1)
    ELSE IF IsZero(y) THEN 1
    ELSE MagCmpMsb(x, y, Msb(x), Msb(y))

\* -1, 0, 1 as x < y, x = y, x > y, for x and y not NaN
F64Cmp(x, y) ==
    IF IsInf(x) \/ IsInf(y)
    THEN LET vx == IF IsInf(x) THEN 1 - 2 * x.s ELSE 0
             vy == IF IsInf(y) THEN 1 - 2 * y.s ELSE 0
         IN  IF vx < vy THEN -1 ELSE IF vx > vy THEN 1 ELSE 0
    ELSE IF IsZero(x) /\ IsZero(y) THEN 0
    ELSE IF x.s # y.s
    THEN (IF IsZero(x) THEN (IF y.s = 1 THEN 1 ELSE -1)
          ELSE IF x.s = 1 THEN -1 ELSE 1)
    ELSE IF x.s = 0 THEN MagCmp(x, y) ELSE MagCmp(y, x)

\* comparisons with a NaN are false
F64Lt(x, y) == ~IsNaN(x) /\ ~IsNaN(y) /\ F64Cmp(x, y) < 0
F64Le(x, y) == ~IsNaN(x) /\ ~IsNaN(y) /\ F64Cmp(x, y) <= 0


\* ------------------------------------------------------------------------
\* Bounds of the model
\* ------------------------------------------------------------------------
\* largest grid resolution of a table file
MaxRes == 2
\* number of distinct well-formed tables per resolution
NumTables == 2

\* ------------------------------------------------------------------------
\* numpy pieces the code calls
\* ------------------------------------------------------------------------
One == [k |-> "fin", s |-> 0, m |-> <<1>>, e |-> 0]
Two == [k |-> "fin", s |-> 0, m |-> <<1>>, e |-> 1]
\* 1 / 2 under "from __future__ import division"
Half == [k |-> "fin", s |-> 0, m |-> <<1>>, e |-> -1]

\* np.linspace(0, 1, n) for n >= 2: arange(n) * (1 / (n - 1)), and the last
\* sample is set to the stop value itself
Linspace01(n) ==
    [i \in 1..n |->
        IF i = n THEN One
        ELSE F64Mul(F64Int(i - 1), F64Div(One, F64Int(n - 1)))]

\* ------------------------------------------------------------------------
\* The binary table file: "SPEC", int32 res, float32 scale[res],
\* float32 coefficients[3 * res^3 * 3].  A file is named by what it holds:
\* its magic bytes, how many of the 4 bytes of the resolution field are
\* there, the resolution written, and how many whole float32 words follow.
\* ------------------------------------------------------------------------
\* 3 * self.res ** 3 * 3
CoeffCount(res) == 3 * res ^ 3 * 3

FullWords(res) == res + CoeffCount(res)

\* the scale axis written in a table: res samples rising from 0 to 1 (for the
\* resolutions used here every sample is a float32 exactly)
ScaleWords(res) == Linspace01(res)

\* the coefficient words of table `seed`, in file order
CoeffWords(res, seed) ==
    [i \in 1..CoeffCount(res) |-> F64Int(((i * 7 + seed * 3) % 11) - 5)]

CutPoints(res) ==
    {0, res - 1, res, res + 1, FullWords(res) - 1, FullWords(res)}

\* the files that hold a whole table (a grid needs two samples per axis, so
\* resolutions start at 2)
WellFormedFiles ==
    {[magic |-> "SPEC", resBytes |-> 4, res |-> res, seed |-> seed,
      words |-> FullWords(res)] : res \in 2..MaxRes, seed \in 1..NumTables}

\* the first table of every resolution
FirstTables == {f \in WellFormedFiles : f.seed = 1}

\* files with a good header, cut after some whole words
CutFiles ==
    UNION {{[f EXCEPT !.words = w] : w \in CutPoints(f.res) \ {f.words}} :
              f \in FirstTables}

\* every file offered to from_file: whole tables, tables cut short in the
\* scale or the coefficients, a resolution field cut short, and a wrong or
\* short magic in front of an otherwise whole table
FileIds ==
    WellFormedFiles
    \cup CutFiles
    \cup {[f EXCEPT !.resBytes = b, !.words = 0] :
            f \in FirstTables, b \in {0, 2}}
    \cup {[f EXCEPT !.magic = mg] :
            f \in FirstTables, mg \in {"SPEK", "SPE", ""}}

\* the whole float32 words of the file after the resolution field
FileFloats(f) ==
    SubSeq(ScaleWords(f.res) \o CoeffWords(f.res, f.seed), 1, f.words)

\* ------------------------------------------------------------------------
\* Jakob2019Interpolator: an object whose attributes res, scale and cubes
\* are absent (<< >>) until assigned (<<value>>).
\* ------------------------------------------------------------------------
Absent == << >>
Attr(v) == <<v>>

NewInterpolator == [res |-> Absent, scale |-> Absent, cubes |-> Absent]

\* a loader that does not look at the magic
MagicAny(f) == TRUE

\* fd.read(4).decode('ISO-8859-1') != 'SPEC' raises ValueError
MagicOK(f) == f.magic = "SPEC"

\* struct.unpack('i', fd.read(4)) raises struct.error on fewer than 4 bytes
ResReadable(f) == f.resBytes = 4

\* self.res = struct.unpack('i', fd.read(4))[0]
AssignRes(o, f) == [o EXCEPT !.res = Attr(f.res)]

\* np.fromfile(fd, count=self.res, dtype=np.float32): the words there are,
\* at most count of them, and no error on a short read
ReadScale(f, res) == SubSeq(FileFloats(f), 1, Min(res, f.words))

\* self.scale = np.fromfile(...)
AssignScale(o, f) == [o EXCEPT !.scale = Attr(ReadScale(f, o.res[1]))]

\* coeffs = np.fromfile(fd, count=3 * self.res ** 3 * 3, dtype=np.float32)
ReadCoeffs(f, res) ==
    LET at == Min(res, f.words)
    IN  SubSeq(FileFloats(f), at + 1, Min(at + CoeffCount(res), f.words))

\* coeffs.reshape(3, self.res, self.res, self.res, 3) raises ValueError
\* unless the array holds exactly that many words
ReshapeOK(coeffs, res) == Len(coeffs) = CoeffCount(res)

\* RegularGridInterpolator(axes, coeffs, bounds_error=False) over
\* axes = ([0, 1, 2], self.scale, samples, samples); fill_value stays NaN
MakeCubes(o, coeffs) ==
    [axes |-> << <<F64Int(0), One, Two>>, o.scale[1],
                 Linspace01(o.res[1]), Linspace01(o.res[1]) >>,
     values |-> coeffs,
     res |-> o.res[1]]

AssignCubes(o, coeffs) == [o EXCEPT !.cubes = Attr(MakeCubes(o, coeffs))]


\* ------------------------------------------------------------------------
\* Jakob2019Interpolator.coefficients
\* ------------------------------------------------------------------------
\* the literal 1e-10
Epsilon == [k |-> "fin", s |-> 0, m |-> <<15803, 13231, 29567, 219>>, e |-> -86]

\* np.max(RGB, axis=-1): a NaN channel makes the maximum NaN
Larger(a, b) ==
    IF IsNaN(a) THEN a
    ELSE IF IsNaN(b) THEN b
    ELSE IF F64Lt(a, b) THEN b ELSE a

VMax(RGB) == Larger(Larger(RGB[1], RGB[2]), RGB[3])

\* np.argmax(RGB, axis=-1): the first index (from 0) of the largest channel,
\* and the index of the first NaN channel if there is one
ArgMax(RGB) ==
    IF IsNaN(RGB[1]) THEN 0
    ELSE IF IsNaN(RGB[2]) THEN 1
    ELSE IF IsNaN(RGB[3]) THEN 2
    ELSE IF ~F64Lt(RGB[1], RGB[2]) /\ ~F64Lt(RGB[1], RGB[3]) THEN 0
    ELSE IF ~F64Lt(RGB[2], RGB[3]) THEN 1
    ELSE 2

\* chroma = RGB / (np.expand_dims(vmax, -1) + 1e-10)
Chroma(RGB, vmax) == [i \in 1..3 |-> F64Div(RGB[i], F64Add(vmax, Epsilon))]

\* a decomposition that takes v2 and v3 from each other's channel
StackSwapped(imax, vmax, chroma) ==
    <<F64Int(imax), vmax,
      chroma[((imax + 1) % 3) + 1], chroma[((imax + 2) % 3) + 1]>>

\* coords = np.stack([imax, vmax, v2, v3], axis=-1), with v2 taken at channel
\* (imax + 2) % 3 and v3 at channel (imax + 1) % 3
Stack(imax, vmax, chroma) ==
    <<F64Int(imax), vmax,
      chroma[((imax + 2) % 3) + 1], chroma[((imax + 1) % 3) + 1]>>

CoordsAt(RGB, vmax) == Stack(ArgMax(RGB), vmax, Chroma(RGB, vmax))

Coords(RGB) == CoordsAt(RGB, VMax(RGB))

\* an interpolator that extrapolates instead of filling
NeverOutOfBounds(axes, x) == FALSE

\* scipy's RegularGridInterpolator, method "linear", bounds_error=False:
\* a point outside the grid on some axis
OutOfBounds(axes, x) ==
    \E a \in 1..4 : F64Lt(x[a], axes[a][1]) \/ F64Lt(axes[a][Len(axes[a])], x[a])

\* np.searchsorted(grid, x) - 1, clipped to 0 .. len(grid) - 2 (here from 1);
\* a NaN sorts after every sample
FindIndex(grid, x) ==
    LET below == IF IsNaN(x) THEN Len(grid)
                 ELSE Cardinality({i \in 1..Len(grid) : F64Lt(grid[i], x)})
    IN  Max(0, Min(below - 1, Len(grid) - 2)) + 1

\* (x - grid[i]) / (grid[i + 1] - grid[i])
NormDistanceAt(grid, x, i) ==
    F64Div(F64Sub(x, grid[i]), F64Sub(grid[i + 1], grid[i]))

NormDistance(grid, x) == NormDistanceAt(grid, x, FindIndex(grid, x))

\* position in the file-order array of values[c, i, j, k, l] (indices from 0)
FlatIndex(res, c, i, j, k, l) == (((c * res + i) * res + j) * res + k) * 3 + l + 1

\* corner n of the hypercube: the offset (0 or 1) on axis a, last axis fastest
CornerBit(n, a) == (n \div (2 ^ (4 - a))) % 2

\* weight = 1.; weight *= (1 - yi if the corner is the lower one else yi)
RECURSIVE CornerWeight(_, _, _)
CornerWeight(y, n, a) ==
    IF a = 0 THEN One
    ELSE F64Mul(CornerWeight(y, n, a - 1),
                IF CornerBit(n, a) = 0 THEN F64Sub(One, y[a]) ELSE y[a])

\* values = 0.; values += self.values[corner] * weight, corner after corner
RECURSIVE SumCorners(_, _, _, _, _)
SumCorners(cubes, idx, w, l, n) ==
    IF n < 0 THEN Zero(0)
    ELSE F64Add(SumCorners(cubes, idx, w, l, n - 1),
                F64Mul(cubes.values[FlatIndex(cubes.res,
                                              idx[1] - 1 + CornerBit(n, 1),
                                              idx[2] - 1 + CornerBit(n, 2),
                                              idx[3] - 1 + CornerBit(n, 3),
                                              idx[4] - 1 + CornerBit(n, 4),
                                              l - 1)],
                       w[n]))

\* self.cubes(coords): the three interpolated coefficients, or the fill
\* value NaN for a point outside the grid
CubesCall(cubes, x) ==
    IF OutOfBounds(cubes.axes, x) THEN <<NaN, NaN, NaN>>
    ELSE LET idx == [a \in 1..4 |-> FindIndex(cubes.axes[a], x[a])]
             y == [a \in 1..4 |-> NormDistance(cubes.axes[a], x[a])]
             w == [n \in 0..15 |-> CornerWeight(y, n, 4)]
         IN  CASE Evaluated(w) ->
                 [l \in 1..3 |-> SumCorners(cubes, idx, w, l, 15)]

\* coefficients as one call: what it returns and the exception it raises
CoefficientsAt(o, coords) ==
    IF o.cubes = Absent
    THEN [coords |-> coords, out |-> << >>, exc |-> "AttributeError"]
    ELSE [coords |-> coords, out |-> CubesCall(o.cubes[1], coords),
          exc |-> "none"]

coefficients(o, RGB) == CoefficientsAt(o, Coords(RGB))


\* ------------------------------------------------------------------------
\* Wavelength shapes.  DEFAULT_SPECTRAL_SHAPE_JAKOB_2019 is
\* SpectralShape(360, 780, 5); the shapes here keep its ends (and those of
\* two narrower shapes) and sample them in Steps equal intervals.
\* ------------------------------------------------------------------------
Steps == 2

Shapes ==
    {[start |-> 360, end |-> 780, interval |-> 420 \div Steps],
     [start |-> 380, end |-> 740, interval |-> 360 \div Steps],
     [start |-> 400, end |-> 700, interval |-> 300 \div Steps]}

\* SpectralShape.range(): start, start + interval, ..., end
ShapeRange(shape) ==
    [i \in 1..((shape.end - shape.start) \div shape.interval + 1) |->
        F64Int(shape.start + (i - 1) * shape.interval)]

\* ------------------------------------------------------------------------
\* spectral_model
\* ------------------------------------------------------------------------
\* U = c_0 * wl ** 2 + c_1 * wl + c_2, at one sample
PolyAt(c, x) ==
    F64Add(F64Add(F64Mul(c[1], F64Mul(x, x)), F64Mul(c[2], x)), c[3])

\* a model without the offset 1 / 2
ReflectanceUnshifted(U) ==
    F64Div(U, F64Mul(Two, F64Sqrt(F64Add(One, F64Mul(U, U)))))

\* a model without the factor 2 of the denominator
ReflectanceUnhalved(U) ==
    F64Add(Half, F64Div(U, F64Sqrt(F64Add(One, F64Mul(U, U)))))

\* R = 1 / 2 + U / (2 * np.sqrt(1 + U ** 2)), at one sample
Reflectance(U) ==
    F64Add(Half,
           F64Div(U, F64Mul(Two, F64Sqrt(F64Add(One, F64Mul(U, U))))))

\* the SpectralDistribution(R, wl) the function returns
spectral_model(c, shape) ==
    LET wl == ShapeRange(shape)
    IN  [wavelengths |-> wl,
         values |-> [i \in DOMAIN wl |->
                        Reflectance(PolyAt(c, wl[i]))]]

\* ------------------------------------------------------------------------
\* error_function_Jakob2019
\* ------------------------------------------------------------------------
\* wv = np.linspace(0, 1, len(shape.range())); U, t1 and R over wv
ErrorFunctionR(c, shape) ==
    LET wv == Linspace01(Len(ShapeRange(shape)))
    IN  [i \in DOMAIN wv |-> Reflectance(PolyAt(c, wv[i]))]

\* error = np.sqrt(np.sum((Lab - target) ** 2)); the reduction starts from
\* the identity 0 and adds the squares one after the other
Square(x) == F64Mul(x, x)

SqrtSum(sq) == F64Sqrt(F64Add(F64Add(F64Add(Zero(0), sq[1]), sq[2]), sq[3]))

ErrorOf(Lab, target) ==
    SqrtSum([j \in 1..3 |-> Square(F64Sub(Lab[j], target[j]))])

\* derror[i] = 0; derror[i] += dLab[j, i] * (Lab[j] - target[j]) for j = 0,
\* 1, 2; derror[i] /= error
DErrorOf(Lab, dLab, target, error) ==
    [i \in 1..3 |->
        F64Div(F64Add(F64Add(F64Add(Zero(0),
                   F64Mul(dLab[1][i], F64Sub(Lab[1], target[1]))),
                   F64Mul(dLab[2][i], F64Sub(Lab[2], target[2]))),
                   F64Mul(dLab[3][i], F64Sub(Lab[3], target[3]))),
               error)]

\* the call, from the reflectance on: Lab and dLab stand for what the
\* integration and the cube-root transform yield for these coefficients
ErrorResult(c, target, shape, Lab, dLab, error) ==
    [error |-> error,
     derror |-> DErrorOf(Lab, dLab, target, error),
     R |-> ErrorFunctionR(c, shape),
     Lab |-> Lab]

error_function_Jakob2019(c, target, shape, Lab, dLab) ==
    ErrorResult(c, target, shape, Lab, dLab, ErrorOf(Lab, target))

\* ------------------------------------------------------------------------
\* dimensionalise_coefficients
\* ------------------------------------------------------------------------
\* a transform whose linear coefficient lacks the factor 2 of the cross term
DimensionaliseNoFactor(cp, shape) ==
    LET start == F64Int(shape.start)
        span == F64Int(shape.end - shape.start)
        span2 == F64Int((shape.end - shape.start) ^ 2)
        start2 == F64Int(shape.start ^ 2)
    IN  <<F64Div(cp[1], span2),
          F64Sub(F64Div(cp[2], span), F64Div(F64Mul(cp[1], start), span2)),
          F64Add(F64Sub(F64Div(F64Mul(cp[1], start2), span2),
                        F64Div(F64Mul(cp[2], start), span)),
                 cp[3])>>

dimensionalise_coefficients(cp, shape) ==
    LET cp_0 == cp[1]
        cp_1 == cp[2]
        cp_2 == cp[3]
        start == F64Int(shape.start)
        span == F64Int(shape.end - shape.start)
        span2 == F64Int((shape.end - shape.start) ^ 2)
        start2 == F64Int(shape.start ^ 2)
        c_0 == F64Div(cp_0, span2)
        c_1 == F64Sub(F64Div(cp_1, span),
                      F64Div(F64Mul(F64Mul(Two, cp_0), start), span2))
        c_2 == F64Add(F64Sub(F64Div(F64Mul(cp_0, start2), span2),
                             F64Div(F64Mul(cp_1, start), span)),
                      cp_2)
    IN  <<c_0, c_1, c_2>>


\* ------------------------------------------------------------------------
\* coefficients_Jakob2019.  Spectral objects live in a heap (a sequence; an
\* object is its index); a distribution is known by its name and its shape.
\* ------------------------------------------------------------------------
\* SpectralDistribution.copy(): a new object with the same content
Copy(sd) == sd

\* SpectralDistribution.align(shape): resamples the object itself onto shape
Align(sd, shape) == [sd EXCEPT !.shape = shape]

\* if illuminant.shape != cmfs.shape: runtime_warning(...);
\* illuminant = illuminant.copy().align(cmfs.shape).  Gives the heap, the
\* object the local name illuminant is bound to and the warnings emitted.
AlignIlluminant(h, a) ==
    IF h[a.illuminant].shape # h[a.cmfs].shape
    THEN [heap |-> Append(h, Align(Copy(h[a.illuminant]), h[a.cmfs].shape)),
          illuminant |-> Len(h) + 1,
          warned |-> 1]
    ELSE [heap |-> h, illuminant |-> a.illuminant, warned |-> 0]

\* the whole call; opt is what scipy's minimize returns (opt.x, opt.fun).
\* sd_to_XYZ, XYZ_to_xy, XYZ_to_Lab and minimize are library calls, taken to
\* return.  sd_to_XYZ(illuminant) is given the illuminant only, so it
\* integrates against the observer table it falls back on (a.observer), not
\* against the cmfs argument.
coefficients_Jakob2019(h, a, opt) ==
    LET al == AlignIlluminant(h, a)
        shape == al.heap[al.illuminant].shape
    IN  [heap |-> al.heap,
         warned |-> al.warned,
         \* sd_to_XYZ(illuminant) / 100 and the Lab target derived from it
         derived |-> [illuminant |-> al.illuminant, cmfs |-> a.observer],
         \* args=(target, shape, cmfs, illuminant, illuminant_XYZ)
         fit |-> [shape |-> shape, cmfs |-> a.cmfs,
                  illuminant |-> al.illuminant],
         coefficients |-> IF a.dimensionalise
                          THEN dimensionalise_coefficients(opt.x, shape)
                          ELSE opt.x,
         error |-> opt.fun]

\* ------------------------------------------------------------------------
\* State
\* ------------------------------------------------------------------------
VARIABLES
    obj,        \* the attributes of the Jakob2019Interpolator object
    arg,        \* the arguments of the call under study
    ret,        \* the outcome of the last completed call, << >> before it
    heap,       \* the spectral objects
    warnings,   \* the number of runtime warnings emitted
    ld,         \* the loading thread: its position in from_file and locals
    seen        \* the last lookup of the reading thread

vars == <<obj, arg, ret, heap, warnings, ld, seen>>

NoArg == [op |-> "none"]

\* no from_file call is running
Idle == [pc |-> "idle", file |-> << >>, before |-> << >>, coeffs |-> << >>]

\* ------------------------------------------------------------------------
\* Arguments
\* ------------------------------------------------------------------------
Big == [k |-> "fin", s |-> 0, m |-> <<1>>, e |-> 27]
Huge == [k |-> "fin", s |-> 0, m |-> <<1>>, e |-> 1010]
Small == [k |-> "fin", s |-> 0, m |-> <<1>>, e |-> -17]
\* 1 / 3
Third == [k |-> "fin", s |-> 0, m |-> <<21845, 10922, 21845, 170>>, e |-> -54]

SpectralModelArgs ==
    [op : {"spectral_model"},
     coefficients : {Zero(0), Small, F64Neg(Small), Huge}
                    \X {Zero(0), One, F64Neg(One)}
                    \X {Zero(0), One, F64Neg(One), Big, F64Neg(Big)},
     shape : Shapes]

DimensionaliseArgs ==
    [op : {"dimensionalise_coefficients"},
     coefficients : {Zero(0), One, F64Neg(One), Third}
                    \X {Zero(0), One, F64Neg(One), Third}
                    \X {Zero(0), One, F64Neg(One), Third},
     shape : Shapes]

LabValues == {<<F64Int(50), F64Int(0), F64Int(0)>>,
              <<F64Int(50), Third, F64Neg(Third)>>,
              <<F64Int(53), F64Int(-2), F64Int(7)>>}

dLabValues ==
    {<< <<F64Int(0), F64Int(0), F64Int(0)>>,
        <<F64Int(0), F64Int(0), F64Int(0)>>,
        <<F64Int(0), F64Int(0), F64Int(0)>> >>,
     << <<F64Int(1), F64Int(2), F64Int(3)>>,
        <<F64Int(-4), F64Int(5), F64Int(6)>>,
        <<F64Int(7), F64Int(-8), F64Int(9)>> >>}

ErrorFunctionArgs ==
    [op : {"error_function_Jakob2019"},
     coefficients : {Zero(0), One, F64Neg(One)}
                    \X {Zero(0), One}
                    \X {Zero(0), Big},
     shape : Shapes,
     target : LabValues,
     Lab : LabValues,
     dLab : dLabValues]

\* the shape of the observer table sd_to_XYZ falls back on is fixed by the
\* library, not by this module: any of the shapes, or the shape 360-830-1
ObserverShapes == Shapes \cup {[start |-> 360, end |-> 830, interval |-> 1]}

\* the caller's illuminant is object 1, the colour matching functions the
\* caller passes are object 2, and the observer table sd_to_XYZ falls back
\* on when it is given no cmfs is object 3
SolverArgs ==
    [op : {"coefficients_Jakob2019"},
     illuminant : {1},
     cmfs : {2},
     observer : {3},
     sds : {<<[name |-> "D65", shape |-> si],
              [name |-> "cmfs", shape |-> sc],
              [name |-> "CIE 1931 2 Degree Standard Observer", shape |-> so]>> :
            si \in Shapes, sc \in Shapes, so \in ObserverShapes},
     coefficients_0 : {<<Zero(0), Zero(0), Zero(0)>>},
     dimensionalise : BOOLEAN]

\* what the optimiser may return
OptResults ==
    [x : {<<Zero(0), Zero(0), Zero(0)>>, <<One, F64Neg(One), Third>>,
          <<Third, One, F64Neg(One)>>},
     fun : {Zero(0), One, Third}]

\* RGB queries: ties, each channel largest, zeros, values above the scale
\* axis, negative channels, ties at large magnitude, infinite and NaN
\* channels
Quarter == [k |-> "fin", s |-> 0, m |-> <<1>>, e |-> -2]
Eighth == [k |-> "fin", s |-> 0, m |-> <<1>>, e |-> -3]
Mega == [k |-> "fin", s |-> 0, m |-> <<1>>, e |-> 20]

RGBValues ==
    {<<Zero(0), Zero(0), Zero(0)>>,
     <<One, One, One>>,
     <<Half, Half, Quarter>>,
     <<Quarter, Half, Half>>,
     <<Half, Quarter, Half>>,
     <<One, Half, Quarter>>,
     <<Quarter, One, Half>>,
     <<Eighth, Half, One>>,
     <<Half, Zero(0), Zero(0)>>,
     <<Third, Quarter, Eighth>>,
     <<Eighth, Third, Quarter>>,
     <<Two, One, One>>,
     <<Half, Two, Quarter>>,
     <<F64Neg(One), F64Neg(Two), F64Neg(Half)>>,
     <<One, F64Neg(Half), Quarter>>,
     <<Half, Quarter, F64Neg(Eighth)>>,
     <<Mega, Mega, Zero(0)>>,
     <<Mega, Half, Mega>>,
     <<Inf(0), Inf(0), Zero(0)>>,
     <<One, NaN, Half>>,
     <<Half, Quarter, NaN>>,
     <<F64Int(3), F64Int(3), F64Int(3)>>}

LookupArgs == [op : {"coefficients"}, RGB : RGBValues]


\* ------------------------------------------------------------------------
\* Calls of the pure functions
\* ------------------------------------------------------------------------
SpectralModelCall ==
    /\ arg.op = "spectral_model"
    /\ ret = << >>
    /\ ret' = <<spectral_model(arg.coefficients, arg.shape)>>
    /\ UNCHANGED <<obj, arg, heap, warnings, ld, seen>>

DimensionaliseCall ==
    /\ arg.op = "dimensionalise_coefficients"
    /\ ret = << >>
    /\ ret' = <<dimensionalise_coefficients(arg.coefficients, arg.shape)>>
    /\ UNCHANGED <<obj, arg, heap, warnings, ld, seen>>

ErrorFunctionCall ==
    /\ arg.op = "error_function_Jakob2019"
    /\ ret = << >>
    /\ ret' = <<error_function_Jakob2019(arg.coefficients, arg.target,
                                         arg.shape, arg.Lab, arg.dLab)>>
    /\ UNCHANGED <<obj, arg, heap, warnings, ld, seen>>

InitModel ==
    /\ obj = NewInterpolator
    /\ arg \in SpectralModelArgs \cup DimensionaliseArgs \cup ErrorFunctionArgs
    /\ ret = << >>
    /\ heap = << >>
    /\ warnings = 0
    /\ ld = Idle
    /\ seen = << >>

NextModel == SpectralModelCall \/ DimensionaliseCall \/ ErrorFunctionCall

SpecModel == InitModel /\ [][NextModel]_vars

\* ------------------------------------------------------------------------
\* A call of coefficients_Jakob2019 on the caller's objects
\* ------------------------------------------------------------------------
SolverCall(opt) ==
    /\ arg.op = "coefficients_Jakob2019"
    /\ ret = << >>
    /\ \E r \in {coefficients_Jakob2019(heap, arg, opt)} :
           /\ heap' = r.heap
           /\ warnings' = warnings + r.warned
           /\ ret' = <<[derived |-> r.derived, fit |-> r.fit,
                        coefficients |-> r.coefficients, error |-> r.error]>>
    /\ UNCHANGED <<obj, arg, ld, seen>>

InitSolver ==
    /\ obj = NewInterpolator
    /\ arg \in SolverArgs
    /\ ret = << >>
    /\ heap = arg.sds
    /\ warnings = 0
    /\ ld = Idle
    /\ seen = << >>

NextSolver == \E opt \in OptResults : SolverCall(opt)

SpecSolver == InitSolver /\ [][NextSolver]_vars

\* ------------------------------------------------------------------------
\* Jakob2019Interpolator.from_file, statement by statement.  The method
\* holds no lock and reads the file between its three attribute stores, so
\* another thread may run between any two of these steps.
\* ------------------------------------------------------------------------
\* from_file is left with the object `after`, by an exception or by its end
Leave(after, exc) ==
    /\ ld' = Idle
    /\ ret' = <<[op |-> "from_file", file |-> ld.file, before |-> ld.before[1],
                 after |-> after, exc |-> exc]>>

\* from_file(path) is entered and the file opened
LoadBegin(f) ==
    /\ ld.pc = "idle"
    /\ ld' = [pc |-> "magic", file |-> <<f>>, before |-> <<obj>>,
              coeffs |-> << >>]
    /\ UNCHANGED <<obj, arg, ret, heap, warnings, seen>>

\* if fd.read(4).decode('ISO-8859-1') != 'SPEC': raise ValueError(...)
LoadMagic ==
    /\ ld.pc = "magic"
    /\ IF MagicOK(ld.file[1])
       THEN ld' = [ld EXCEPT !.pc = "res"] /\ UNCHANGED ret
       ELSE Leave(obj, "ValueError")
    /\ UNCHANGED <<obj, arg, heap, warnings, seen>>

\* self.res = struct.unpack('i', fd.read(4))[0]
LoadRes ==
    /\ ld.pc = "res"
    /\ IF ResReadable(ld.file[1])
       THEN /\ obj' = AssignRes(obj, ld.file[1])
            /\ ld' = [ld EXCEPT !.pc = "scale"]
            /\ UNCHANGED ret
       ELSE Leave(obj, "struct.error") /\ UNCHANGED obj
    /\ UNCHANGED <<arg, heap, warnings, seen>>

\* self.scale = np.fromfile(fd, count=self.res, dtype=np.float32)
LoadScale ==
    /\ ld.pc = "scale"
    /\ obj' = AssignScale(obj, ld.file[1])
    /\ ld' = [ld EXCEPT !.pc = "coeffs"]
    /\ UNCHANGED <<arg, ret, heap, warnings, seen>>

\* coeffs = np.fromfile(...); coeffs = coeffs.reshape(...)
LoadCoeffs ==
    /\ ld.pc = "coeffs"
    /\ \E coeffs \in {ReadCoeffs(ld.file[1], obj.res[1])} :
           IF ReshapeOK(coeffs, obj.res[1])
           THEN ld' = [ld EXCEPT !.pc = "cubes", !.coeffs = <<coeffs>>]
                /\ UNCHANGED ret
           ELSE Leave(obj, "ValueError")
    /\ UNCHANGED <<obj, arg, heap, warnings, seen>>

\* self.cubes = RegularGridInterpolator(...), and from_file returns
LoadCubes ==
    /\ ld.pc = "cubes"
    /\ \E after \in {AssignCubes(obj, ld.coeffs[1])} :
           obj' = after /\ Leave(after, "none")
    /\ UNCHANGED <<arg, heap, warnings, seen>>

\* ------------------------------------------------------------------------
\* Loads of whole, cut and mislabelled files into one interpolator object
\* ------------------------------------------------------------------------
\* Jakob2019Interpolator(): a fresh object, taken while no load is running
\* on the old one
NewInstance ==
    /\ ld.pc = "idle"
    /\ obj' = NewInterpolator
    /\ ret' = <<[op |-> "__init__", file |-> << >>, before |-> obj,
                 after |-> NewInterpolator, exc |-> "none"]>>
    /\ UNCHANGED <<arg, heap, warnings, ld, seen>>

InitLoad ==
    /\ obj = NewInterpolator
    /\ arg = NoArg
    /\ ret = << >>
    /\ heap = << >>
    /\ warnings = 0
    /\ ld = Idle
    /\ seen = << >>

NextLoad ==
    \/ NewInstance
    \/ \E f \in FileIds : LoadBegin(f)
    \/ LoadMagic
    \/ LoadRes
    \/ LoadScale
    \/ LoadCoeffs
    \/ LoadCubes

SpecLoad == InitLoad /\ [][NextLoad]_vars

\* ------------------------------------------------------------------------
\* Lookups on an object into which whole tables are loaded.  Nothing orders
\* a coefficients call and the statements of a running from_file, so the
\* call may come between any two of them.
\* ------------------------------------------------------------------------
\* the tables loaded under the lookups: the first of every resolution and
\* the last of the smallest one
LookupFiles ==
    {f \in WellFormedFiles : f.seed = 1 \/ (f.res = 2 /\ f.seed = NumTables)}

\* coefficients(RGB): the object the call finds, and what the call gives
CoefficientsCall ==
    /\ arg.op = "coefficients"
    /\ \E r \in {coefficients(obj, arg.RGB)} :
           ret' = <<[op |-> "coefficients", RGB |-> arg.RGB, obj |-> obj,
                     coords |-> r.coords, out |-> r.out, exc |-> r.exc]>>
    /\ UNCHANGED <<obj, arg, heap, warnings, ld, seen>>

InitLookup ==
    /\ obj = NewInterpolator
    /\ arg \in LookupArgs
    /\ ret = << >>
    /\ heap = << >>
    /\ warnings = 0
    /\ ld = Idle
    /\ seen = << >>

NextLookup ==
    \/ CoefficientsCall
    \/ \E f \in LookupFiles : LoadBegin(f)
    \/ LoadMagic
    \/ LoadRes
    \/ LoadScale
    \/ LoadCoeffs
    \/ LoadCubes

SpecLookup == InitLookup /\ [][NextLookup]_vars

\* ------------------------------------------------------------------------
\* One thread inside from_file and another thread calling coefficients on
\* the same object, with files that make from_file fail as well.
\* ------------------------------------------------------------------------
\* the files the loading thread is given: whole tables, one with a wrong
\* magic, one with a short resolution field and one cut in the coefficients
ConcFiles ==
    WellFormedFiles
    \cup {f \in FileIds : f.res = 2 /\ f.seed = 1 /\
            (f.magic = "SPEK" \/ f.resBytes = 2 \/ f.words = FullWords(2) - 1)}

\* the query of the reading thread
ConcRGB == {<<Half, Half, Quarter>>}

\* the reading thread calls coefficients(RGB), once: what it finds in the
\* object, where the loading thread stands meanwhile, and what the call gives
Lookup(RGB) ==
    /\ seen = << >>
    /\ \E r \in {coefficients(obj, RGB)} :
           seen' = <<[obj |-> obj, loading |-> ld.pc, RGB |-> RGB,
                      out |-> r.out, exc |-> r.exc]>>
    /\ UNCHANGED <<obj, arg, ret, heap, warnings, ld>>

InitConc ==
    /\ obj = NewInterpolator
    /\ arg = NoArg
    /\ ret = << >>
    /\ heap = << >>
    /\ warnings = 0
    /\ ld = Idle
    /\ seen = << >>

NextConc ==
    \/ \E f \in ConcFiles : LoadBegin(f)
    \/ LoadMagic
    \/ LoadRes
    \/ LoadScale
    \/ LoadCoeffs
    \/ LoadCubes
    \/ \E RGB \in ConcRGB : Lookup(RGB)

SpecConc == InitConc /\ [][NextConc]_vars

\* ------------------------------------------------------------------------
\* Properties
\* ------------------------------------------------------------------------
\* C1: a from_file call on a file whose first four bytes are not "SPEC"
\* raises ValueError, and res, scale and cubes of the object are after the
\* call what they were before it.
C1_BadMagicRejected ==
    \A i \in DOMAIN ret :
        (ret[i].op = "from_file" /\ ret[i].file[1].magic # "SPEC")
            => (ret[i].exc = "ValueError" /\ ret[i].after = ret[i].before)

\* a file with a wrong magic was offered to an object that held a table
C1_Witness ==
    \E i \in DOMAIN ret :
        /\ ret[i].op = "from_file"
        /\ ret[i].file[1].magic # "SPEC"
        /\ ret[i].before.cubes # Absent
        /\ ret[i].exc = "ValueError"

\* C2: a from_file call on a truncated file (magic "SPEC", but a short read
\* in the resolution field, the scale or the coefficients) raises ValueError,
\* and res, scale and cubes of the object are after the call what they were
\* before it.
C2_TruncatedRejected ==
    \A i \in DOMAIN ret :
        (/\ ret[i].op = "from_file"
         /\ ret[i].file[1].magic = "SPEC"
         /\ \/ ret[i].file[1].resBytes < 4
            \/ ret[i].file[1].words < FullWords(ret[i].file[1].res))
            => (ret[i].exc = "ValueError" /\ ret[i].after = ret[i].before)

\* C3: when error_function_Jakob2019 computes an error of exactly zero, the
\* gradient it returns to the optimiser has no NaN and no infinite component.
C3_ZeroErrorGuarded ==
    (/\ arg.op = "error_function_Jakob2019"
     /\ ret # << >>
     /\ IsZero(ret[1].error))
        => \A i \in 1..3 : IsFinite(ret[1].derror[i])

\* 2^-44, some hundreds of units in the last place of a binary64
Ulps == [k |-> "fin", s |-> 0, m |-> <<1>>, e |-> -44]

\* the rounding allowance of the two polynomials over a shape:
\* 2^-44 * (|cp0| + |cp1| + |cp2|) * (1 + (start + end) / (end - start))^2
Allowance(cp, shape) ==
    F64Mul(Ulps,
           F64Mul(F64Add(F64Add(F64Abs(cp[1]), F64Abs(cp[2])), F64Abs(cp[3])),
                  Square(F64Add(One,
                                F64Div(F64Int(shape.start + shape.end),
                                       F64Int(shape.end - shape.start))))))

\* t = (wl - start) / (end - start)
Normalised(wl, shape) ==
    F64Div(F64Sub(wl, F64Int(shape.start)), F64Int(shape.end - shape.start))

\* C4: at every wavelength wl of the shape, the polynomial of the
\* coefficients dimensionalise_coefficients returns, taken at wl, equals the
\* polynomial of the nondimensional coefficients taken at
\* t = (wl - start) / (end - start), to floating-point precision (within the
\* rounding allowance).
C4_ChangeOfVariable ==
    (arg.op = "dimensionalise_coefficients" /\ ret # << >>)
        => \A i \in DOMAIN ShapeRange(arg.shape) :
               F64Le(F64Abs(F64Sub(
                         PolyAt(ret[1], ShapeRange(arg.shape)[i]),
                         PolyAt(arg.coefficients,
                                Normalised(ShapeRange(arg.shape)[i],
                                           arg.shape)))),
                     Allowance(arg.coefficients, arg.shape))

\* a triplet with no zero and an inexact coefficient has been dimensionalised
C4_Witness ==
    /\ arg.op = "dimensionalise_coefficients"
    /\ ret # << >>
    /\ arg.coefficients = <<Third, F64Neg(One), Third>>
    /\ ret[1] # arg.coefficients

\* C5: the caller's illuminant object is not modified; the illuminant and
\* the colour matching functions used for the derivation of the target, and
\* those handed to the fit, share one wavelength shape, that of the cmfs
\* argument; the illuminant of the derivation is the one of the fit; and if
\* the shapes of illuminant and cmfs differed on entry, one warning was
\* emitted and that illuminant is a copy of the caller's, aligned to the
\* shape of the cmfs argument.
C5_SharedShape ==
    ret # << >> =>
        /\ heap[arg.illuminant] = arg.sds[arg.illuminant]
        /\ heap[ret[1].derived.cmfs].shape
             = heap[ret[1].derived.illuminant].shape
        /\ ret[1].fit.illuminant = ret[1].derived.illuminant
        /\ ret[1].fit.cmfs = arg.cmfs
        /\ heap[ret[1].fit.illuminant].shape = heap[arg.cmfs].shape
        /\ ret[1].fit.shape = heap[arg.cmfs].shape
        /\ (arg.sds[arg.illuminant].shape # arg.sds[arg.cmfs].shape
              => /\ warnings = 1
                 /\ ret[1].fit.illuminant # arg.illuminant
                 /\ heap[ret[1].fit.illuminant]
                      = [arg.sds[arg.illuminant] EXCEPT
                           !.shape = arg.sds[arg.cmfs].shape])

\* the coordinates x lie inside the grid of a table with this scale axis:
\* vmax within the scale, v2 and v3 within [0, 1] (a NaN lies within nothing)
Inside(x, scale) ==
    /\ F64Le(scale[1], x[2])
    /\ F64Le(x[2], scale[Len(scale)])
    /\ \A a \in 3..4 : F64Le(Zero(0), x[a]) /\ F64Le(x[a], One)

\* C6: a lookup on a loaded table raises nothing; it returns the fill value
\* (NaN in every coefficient) when the coordinates lie outside the grid, and
\* no NaN when they lie inside.
C6_SentinelOutside ==
    \A i \in DOMAIN ret :
        (ret[i].op = "coefficients" /\ ret[i].obj.cubes # Absent)
            => /\ ret[i].exc = "none"
               /\ ~Inside(ret[i].coords, ret[i].obj.scale[1])
                    => ret[i].out = <<NaN, NaN, NaN>>
               /\ Inside(ret[i].coords, ret[i].obj.scale[1])
                    => \A l \in 1..3 : ~IsNaN(ret[i].out[l])

\* a query above the scale axis has been answered by a loaded table
C6_Witness ==
    \E i \in DOMAIN ret :
        /\ ret[i].op = "coefficients"
        /\ ret[i].obj.cubes # Absent
        /\ F64Lt(One, ret[i].coords[2])
        /\ IsFinite(ret[i].coords[2])
        /\ ret[i].out = <<NaN, NaN, NaN>>
        /\ ret[i].exc = "none"

\* C7: for coefficients (0, 0, 0), spectral_model returns one value per
\* wavelength of the shape, each exactly 0.5.
C7_GreyBaseline ==
    (/\ arg.op = "spectral_model"
     /\ ret # << >>
     /\ \A j \in 1..3 : IsZero(arg.coefficients[j]))
        => /\ ret[1].wavelengths = ShapeRange(arg.shape)
           /\ DOMAIN ret[1].values = DOMAIN ret[1].wavelengths
           /\ \A i \in DOMAIN ret[1].values : ret[1].values[i] = Half

\* spectral_model has returned for the coefficients (0, 0, 0)
C7_Witness ==
    /\ arg.op = "spectral_model"
    /\ ret # << >>
    /\ \A j \in 1..3 : IsZero(arg.coefficients[j])
    /\ Len(ret[1].values) > 1

\* C8 as stated: for finite coefficients, every reflectance spectral_model
\* and error_function_Jakob2019 compute lies strictly between 0 and 1.
C8_StrictlyInside ==
    /\ (/\ arg.op = "spectral_model"
        /\ ret # << >>
        /\ \A j \in 1..3 : IsFinite(arg.coefficients[j]))
          => \A i \in DOMAIN ret[1].values :
                 /\ F64Lt(Zero(0), ret[1].values[i])
                 /\ F64Lt(ret[1].values[i], One)
    /\ (/\ arg.op = "error_function_Jakob2019"
        /\ ret # << >>
        /\ \A j \in 1..3 : IsFinite(arg.coefficients[j]))
          => \A i \in DOMAIN ret[1].R :
                 /\ F64Lt(Zero(0), ret[1].R[i])
                 /\ F64Lt(ret[1].R[i], One)

\* C8, amended: wherever the polynomial U is finite, the reflectance
\* spectral_model and error_function_Jakob2019 compute from it lies between
\* 0 and 1, the ends included, without any clamping.
C8_InsideClosed ==
    /\ (arg.op = "spectral_model" /\ ret # << >>)
          => \A i \in DOMAIN ret[1].values :
                 IsFinite(PolyAt(arg.coefficients, ret[1].wavelengths[i]))
                    => /\ F64Le(Zero(0), ret[1].values[i])
                       /\ F64Le(ret[1].values[i], One)
    /\ (arg.op = "error_function_Jakob2019" /\ ret # << >>)
          => \A i \in DOMAIN ret[1].R :
                 IsFinite(PolyAt(arg.coefficients,
                                 Linspace01(Len(ret[1].R))[i]))
                    => /\ F64Le(Zero(0), ret[1].R[i])
                       /\ F64Le(ret[1].R[i], One)

\* a finite U has given the reflectance 1 exactly, and another one 0 exactly
C8_Witness ==
    /\ arg.op = "spectral_model"
    /\ ret # << >>
    /\ \E i \in DOMAIN ret[1].values :
           /\ IsFinite(PolyAt(arg.coefficients, ret[1].wavelengths[i]))
           /\ ret[1].values[i] \in {One, Zero(0)}

\* C9: whatever a lookup finds in the object while from_file may be running
\* is either an object with no field assigned or a whole table: cubes
\* present, and res and scale those the cubes were built from.
C9_NoPartialTable ==
    \A i \in DOMAIN seen :
        \/ seen[i].obj = NewInterpolator
        \/ /\ seen[i].obj.cubes # Absent
           /\ seen[i].obj.res = Attr(seen[i].obj.cubes[1].res)
           /\ seen[i].obj.scale = Attr(seen[i].obj.cubes[1].axes[2])

\* the coordinates of the call r are the decomposition of its RGB: imax the
\* lowest index of a largest channel, vmax that channel, v2 and v3 the
\* channels (imax + 2) mod 3 and (imax + 1) mod 3 over vmax + 1e-10
Decomposed(r) ==
    \E imax \in 0..2 :
        /\ r.coords[1] = F64Int(imax)
        /\ \A j \in 1..3 : ~F64Lt(r.RGB[imax + 1], r.RGB[j])
        /\ \A j \in 1..imax : F64Lt(r.RGB[j], r.RGB[imax + 1])
        /\ r.coords[2] = r.RGB[imax + 1]
        /\ r.coords[3] = F64Div(r.RGB[((imax + 2) % 3) + 1],
                                F64Add(r.RGB[imax + 1], Epsilon))
        /\ r.coords[4] = F64Div(r.RGB[((imax + 1) % 3) + 1],
                                F64Add(r.RGB[imax + 1], Epsilon))
        /\ {imax, (imax + 1) % 3, (imax + 2) % 3} = {0, 1, 2}

\* C10 as stated: for every RGB the coordinates are the decomposition of the
\* RGB, and for a non-negative RGB both v2 and v3 lie in [0, 1).
C10_HalfOpen ==
    \A i \in DOMAIN ret :
        ret[i].op = "coefficients"
            => /\ Decomposed(ret[i])
               /\ (\A j \in 1..3 : F64Le(Zero(0), ret[i].RGB[j]))
                    => \A a \in 3..4 :
                           /\ F64Le(Zero(0), ret[i].coords[a])
                           /\ F64Lt(ret[i].coords[a], One)

\* C10, amended: imax is always one of 0, 1, 2; for an RGB with no NaN
\* channel the coordinates are the decomposition of the RGB; and for a finite
\* non-negative RGB both v2 and v3 lie in [0, 1], the ends included.
C10_Decomposition ==
    \A i \in DOMAIN ret :
        ret[i].op = "coefficients"
            => /\ \E imax \in 0..2 : ret[i].coords[1] = F64Int(imax)
               /\ (\A j \in 1..3 : ~IsNaN(ret[i].RGB[j]))
                    => Decomposed(ret[i])
               /\ (\A j \in 1..3 : /\ IsFinite(ret[i].RGB[j])
                                   /\ F64Le(Zero(0), ret[i].RGB[j]))
                    => \A a \in 3..4 :
                           /\ F64Le(Zero(0), ret[i].coords[a])
                           /\ F64Le(ret[i].coords[a], One)

\* a finite non-negative RGB whose two largest channels tie has given v2 or
\* v3 equal to 1
C10_Witness ==
    \E i \in DOMAIN ret :
        /\ ret[i].op = "coefficients"
        /\ \A j \in 1..3 : /\ IsFinite(ret[i].RGB[j])
                           /\ F64Le(Zero(0), ret[i].RGB[j])
        /\ \E a \in 3..4 : ret[i].coords[a] = One

====
